---- MODULE Spec2Model ----
(***************************************************************************)
(* Change-point detection and curve-correction engine of roche-flatten.    *)
(*                                                                         *)
(* Numbers.  Readings, CUSUM values, thresholds and the slack k are        *)
(* floating-point numbers in the program; here they are exact integers     *)
(* (readings are counted in thousandths, so a reading of 2000 stands for   *)
(* 2.0).  Means, regression slopes and the squared noise scale are exact   *)
(* rationals <<numerator, denominator>>.  Floating-point rounding is not   *)
(* modelled.                                                               *)
(*                                                                         *)
(* Indices.  Sequences are 1-based in TLA+ and 0-based in Python; every    *)
(* index named in this module (min_index, i, start, end) is the Python     *)
(* index, and At(s, i) reads s[i].                                         *)
(***************************************************************************)
EXTENDS Integers, Sequences, FiniteSets, TLC

\* ------------------------------------------------------------------ bounds
\* longest sequence handed to compute_negative_cusum
MaxDetLen == 4
\* detector inputs are drawn from 0..MaxDetVal
MaxDetVal == 2
\* the slack k is drawn from -MaxK..MaxK
MaxK == 1
\* longest reading sequence handed to create_flattened_readings
MaxLen == 6
\* the random source returns jitter on the grid -MaxJitter..MaxJitter
MaxJitter == 2
\* a stored curve has at most MaxLevels levels of (nearly) equal duration
MaxLevels == 3

\* "if len(readings) < 10: continue"
MinReadings == 10

\* reading values (thousandths), stored CUSUM values and thresholds
ReadingVals == {0, 1000, 2000}
CusumVals == {0, -1}
Thresholds == {-2, -1, 0}

VARIABLES
    pc,                 \* position of the running call
    module,             \* which module's detector functions the caller imported
    y_vals,             \* compute_negative_cusum: input sequence
    k,                  \* compute_negative_cusum: slack
    cusum,              \* compute_negative_cusum: returned trace
    cusum_idx,          \* find_cusum_minimum_index: returned index (-1 before)
    heap,               \* list objects: address -> sequence of numbers
    readings,           \* the caller's reading sequence as it was before the call
    original_readings,  \* create_flattened_readings: reference to the reading list
    cusum_values,       \* create_flattened_readings: trace argument
    cusum_min,          \* create_flattened_readings: CUSUM minimum argument
    threshold,          \* create_flattened_readings: threshold argument
    sanity_check,       \* create_flattened_readings: average-comparison flag
    sanity_lob,         \* create_flattened_readings: line-of-best-fit flag
    ret,                \* the value returned to the caller
    exit,               \* which return statement produced ret
    linregress_calls,   \* len(x_values) of every stats.linregress call made, in order
    y_inv,              \* apply_corrected_cusum_algorithm: the scaled, inverted readings
    y_smooth,           \* apply_corrected_cusum_algorithm: the smoothed y_inv
    random_state,       \* module random: values drawn so far from the process-wide generator
    source_table,       \* the table --source-table names (default readings): id -> row
    dest_table,         \* the table --dest-table names (default flatten): id -> row
    records,            \* create_flattened_database_fast.py main: the fetched records still to do
    batch_updates,      \* create_flattened_database_fast.py main: the updates not yet executed
    flattened_ids,      \* ids of the records main has flattened (it keeps their count)
    cycle_of,           \* for the sequences a caller extracted: the cycle behind each position
    example_ids,        \* table example_ids: id -> <<mix, target>>, for the ids it holds
    ids_to_add,         \* add_example_ids: the argument
    runs,               \* how many runs of create_flattened_database_fast.py were started
    cusum_threshold,    \* apply_corrected_cusum_all.py main: the threshold of the stored flag
    executed            \* process_batch: the ids whose UPDATE was executed, in order

detVars == <<module, y_vals, k, cusum, cusum_idx>>
argVars == <<readings, original_readings, cusum_values, cusum_min, threshold,
             sanity_check, sanity_lob>>
decVars == <<heap, readings, original_readings, cusum_values, cusum_min,
             threshold, sanity_check, sanity_lob, ret, exit, linregress_calls>>
normVars == <<y_inv, y_smooth>>
dbVars == <<source_table, dest_table, records, batch_updates, flattened_ids, cycle_of,
            cusum_threshold, executed, runs, example_ids, ids_to_add>>
vars == <<pc, module, y_vals, k, cusum, cusum_idx, heap, readings, original_readings,
          cusum_values, cusum_min, threshold, sanity_check, sanity_lob, ret, exit,
          linregress_calls, y_inv, y_smooth, random_state, source_table, dest_table,
          records, batch_updates, flattened_ids, cycle_of, cusum_threshold,
          executed, runs, example_ids, ids_to_add>>

\* --------------------------------------------------------- Python helpers
At(s, i) == s[i + 1]

Min2(a, b) == IF a <= b THEN a ELSE b

\* s[a:b] for 0 <= a
Slice(s, a, b) == SubSeq(s, a + 1, Min2(b, Len(s)))

RECURSIVE Sum(_)
Sum(s) == IF s = <<>> THEN 0 ELSE s[1] + Sum(Tail(s))

\* min(s) of a non-empty list
ListMin(s) == CHOOSE m \in {s[j] : j \in 1..Len(s)} : \A j \in 1..Len(s) : m <= s[j]

\* s.index(v): the first position holding v
ListIndex(s, v) == (CHOOSE j \in 1..Len(s) : s[j] = v /\ \A h \in 1..(j - 1) : s[h] # v) - 1

\* ------------------------------------------------------- CUSUM detector
RECURSIVE CusumLoop(_, _, _, _)
CusumLoop(y, kk, i, acc) ==
    IF i >= Len(y) THEN acc
    ELSE LET diff == At(y, i) - At(y, i - 1)
             s == Min2(0, acc[Len(acc)] + (diff - kk))
         IN CusumLoop(y, kk, i + 1, Append(acc, s))

\* the recurrence without the clamp at 0
RECURSIVE CusumLoopNoClamp(_, _, _, _)
CusumLoopNoClamp(y, kk, i, acc) ==
    IF i >= Len(y) THEN acc
    ELSE LET diff == At(y, i) - At(y, i - 1)
             s == acc[Len(acc)] + (diff - kk)
         IN CusumLoopNoClamp(y, kk, i + 1, Append(acc, s))

compute_negative_cusum_noclamp(y, kk) == CusumLoopNoClamp(y, kk, 1, <<0>>)

\* the recurrence with the slack added instead of subtracted
compute_negative_cusum_plusk(y, kk) == CusumLoop(y, 0 - kk, 1, <<0>>)

compute_negative_cusum(y, kk) == CusumLoop(y, kk, 1, <<0>>)

\* the last position of the minimum instead of the first
find_cusum_minimum_index_last(cv) ==
    (CHOOSE j \in 1..Len(cv) : cv[j] = ListMin(cv) /\ \A h \in (j + 1)..Len(cv) : cv[h] # cv[j]) - 1

find_cusum_minimum_index(cv) == ListIndex(cv, ListMin(cv))

\* ------------------------------------------------------------ the detector
\* no database is open
NoDatabase ==
    /\ source_table = <<>>
    /\ dest_table = <<>>
    /\ records = <<>>
    /\ batch_updates = <<>>
    /\ flattened_ids = {}
    /\ cycle_of = [readings |-> <<>>, cusum |-> <<>>]
    /\ cusum_threshold = 0
    /\ runs = 0
    /\ example_ids = <<>>
    /\ ids_to_add = <<>>
    /\ executed = <<>>

DetInputs == UNION {[1..n -> 0..MaxDetVal] : n \in 0..MaxDetLen}

NoCall ==
    /\ heap = [a \in 1..2 |-> <<>>]
    /\ readings = <<>>
    /\ original_readings = 0
    /\ cusum_values = <<>>
    /\ cusum_min = 0
    /\ threshold = 0
    /\ sanity_check = FALSE
    /\ sanity_lob = FALSE
    /\ ret = [kind |-> "pending"]
    /\ exit = "none"
    /\ linregress_calls = <<>>
    /\ y_inv = <<>>
    /\ y_smooth = <<>>
    /\ random_state = 0
    /\ NoDatabase

\* utils/algorithms.py returns the trace as np.array(cusum);
\* generate_flattened_cusum_html.py returns the list itself
Modules == {"utils.algorithms", "generate_flattened_cusum_html"}

ReturnsArray(m) == m = "utils.algorithms"

InitDetect ==
    /\ pc = "detect"
    /\ module \in Modules
    /\ y_vals \in DetInputs
    /\ k \in -MaxK..MaxK
    /\ cusum = <<>>
    /\ cusum_idx = -1
    /\ NoCall

call_compute_negative_cusum ==
    /\ pc = "detect"
    /\ cusum' = compute_negative_cusum(y_vals, k)
    /\ pc' = "trace"
    /\ UNCHANGED <<module, y_vals, k, cusum_idx>>
    /\ UNCHANGED decVars
    /\ UNCHANGED normVars
    /\ UNCHANGED random_state
    /\ UNCHANGED dbVars

\* min(cusum_values) accepts a list and an array; .index exists on a list
\* only, and on an array the call ends in AttributeError
call_find_cusum_minimum_index ==
    /\ pc = "trace"
    /\ IF ReturnsArray(module)
       THEN pc' = "AttributeError" /\ cusum_idx' = cusum_idx
       ELSE pc' = "detected" /\ cusum_idx' = find_cusum_minimum_index(cusum)
    /\ UNCHANGED <<module, y_vals, k, cusum>>
    /\ UNCHANGED decVars
    /\ UNCHANGED normVars
    /\ UNCHANGED random_state
    /\ UNCHANGED dbVars

NextDetect == call_compute_negative_cusum \/ call_find_cusum_minimum_index

SpecDetect == InitDetect /\ [][NextDetect]_vars

\* ------------------------------------------------ numeric library calls
\* np.mean(s) as the rational Sum/Len
np_mean(s) == <<Sum(s), Len(s)>>

\* x >= q for an integer x and a rational q with a positive denominator
GeqRat(x, q) == x * q[2] >= q[1]

RECURSIVE SumSq(_)
SumSq(s) == IF s = <<>> THEN 0 ELSE s[1] * s[1] + SumSq(Tail(s))

\* np.std(s) ** 2, the population variance, as a rational
np_std_sq(s) == <<Len(s) * SumSq(s) - Sum(s) * Sum(s), Len(s) * Len(s)>>

RECURSIVE SumXY(_, _)
SumXY(x0, s) == IF s = <<>> THEN 0 ELSE x0 * s[1] + SumXY(x0 + 1, Tail(s))

\* slope of stats.linregress(np.arange(len(ys)), ys) as a rational:
\* (n*Sxy - Sx*Sy) / (n*Sxx - Sx*Sx)
linregress_slope(ys) ==
    LET n == Len(ys)
        xs == [j \in 1..n |-> j - 1]
    IN <<n * SumXY(0, ys) - Sum(xs) * Sum(ys), n * SumSq(xs) - Sum(xs) * Sum(xs)>>

calculate_lob_gradient(ys) == linregress_slope(ys)

\* the values random.uniform(-noise_scale, noise_scale) can return, on the
\* integer grid, for noise_scale given by its square
random_uniform(noise_scale_sq) ==
    {j \in -MaxJitter..MaxJitter : j * j * noise_scale_sq[2] <= noise_scale_sq[1]}

\* ------------------------------------------------------- list objects
\* a list that shares the argument's storage instead of copying it
list_alias(h, ref) == [heap |-> h, ref |-> ref]

\* lst.copy(): a new list object holding the same elements
list_copy(h, ref) == [heap |-> [h EXCEPT ![2] = h[ref]], ref |-> 2]

\* lst[i] = v for every i in range(upto), v = target + noise[i]
FlattenLoop(h, ref, upto, target, noise) ==
    [h EXCEPT ![ref] = [j \in 1..Len(h[ref]) |->
                           IF j <= upto THEN target + noise[j] ELSE h[ref][j]]]

\* ------------------------------------- create_flattened_readings (shared)
\* the threshold test excluding equality
threshold_strict(cmin, th) == cmin >= th

\* "if cusum_min > threshold: return None"
BelowThreshold(cmin, th) == cmin > th

\* the guard letting a minimum at index 1 through
too_early_zero_only(mi) == mi <= 0

\* "if min_index <= 1: return None"
TooEarly(mi) == mi <= 1

\* the readings averaged into avg_first
EarlyReadings(r, mi) == IF mi < 5 THEN Slice(r, 0, 2) ELSE Slice(r, 0, 5)

\* the comparison letting equality pass
avg_check_fails_strict(target, avg) == target * avg[2] > avg[1]

\* "if target_reading >= avg_first: return None"
AvgCheckFails(target, avg) == GeqRat(target, avg)

\* the comparison letting a zero slope pass
lob_check_fails_strict(g) == g[1] > 0

\* "if lob_gradient >= 0: return None"
LobCheckFails(g) == g[1] >= 0

\* a noise scale of 1% of the standard deviation
noise_scale_tenth(r) == <<np_std_sq(r)[1], np_std_sq(r)[2] * 10000>>

\* noise_scale ** 2 = (np.std(r) * 0.001) ** 2
NoiseScaleSq(r) == <<np_std_sq(r)[1], np_std_sq(r)[2] * 1000000>>

\* "target_reading = original_readings[min_index]"
TargetReading(r, mi) == At(r, mi)

\* the loop flattens one position too many
flatten_upto_inclusive(mi) == mi + 1

\* "for i in range(min_index)"
FlattenUpto(mi) == mi

None == [kind |-> "None"]

\* --------------------- utils/visualization.py: create_flattened_readings
\* (min_index, target_reading, avg_first and lob_gradient left at None)
vis_create_flattened_readings ==
    /\ pc = "call"
    /\ pc' = "returned_vis"
    /\ LET r == heap[original_readings] IN
       IF BelowThreshold(cusum_min, threshold)
       THEN ret' = None /\ exit' = "threshold" /\ heap' = heap /\ linregress_calls' = <<>>
            /\ random_state' = random_state
       ELSE LET min_index == find_cusum_minimum_index(cusum_values) IN
       IF TooEarly(min_index)
       THEN ret' = None /\ exit' = "too_early" /\ heap' = heap /\ linregress_calls' = <<>>
            /\ random_state' = random_state
       ELSE LET target_reading == TargetReading(r, min_index)
                avg_first == np_mean(EarlyReadings(r, min_index))
                y_values == Slice(r, 0, min_index + 1)
       IN
       IF sanity_check /\ AvgCheckFails(target_reading, avg_first)
       THEN ret' = None /\ exit' = "sanity" /\ heap' = heap /\ linregress_calls' = <<>>
            /\ random_state' = random_state
       ELSE IF sanity_lob /\ LobCheckFails(calculate_lob_gradient(y_values))
       THEN /\ ret' = None
            /\ exit' = "lob"
            /\ heap' = heap
            /\ linregress_calls' = <<Len(y_values)>>
            /\ random_state' = random_state
       ELSE LET flattened == list_copy(heap, original_readings) IN
            \E noise \in [1..FlattenUpto(min_index) -> random_uniform(NoiseScaleSq(r))] :
               /\ heap' = FlattenLoop(flattened.heap, flattened.ref,
                                      FlattenUpto(min_index), target_reading, noise)
               /\ ret' = [kind |-> "list", flattened |-> flattened.ref]
               /\ exit' = "flattened"
               /\ linregress_calls' = IF sanity_lob THEN <<Len(y_values)>> ELSE <<>>
               /\ random_state' = random_state + FlattenUpto(min_index)
    /\ UNCHANGED argVars
    /\ UNCHANGED detVars
    /\ UNCHANGED normVars
    /\ UNCHANGED dbVars

\* ------------- generate_flattened_cusum_html.py: create_flattened_readings
Tuple4(fl, mi, passed, g) ==
    [kind |-> "tuple", flattened |-> fl, min_index |-> mi,
     sanity_check_passed |-> passed, lob_gradient |-> g]

\* what one call can return: the value, the return statement, the heap it
\* leaves, the regressions it ran and the number of random.uniform calls
Result(v, e, h, calls, draws) ==
    [ret |-> v, exit |-> e, heap |-> h, linregress_calls |-> calls, draws |-> draws]

create_flattened_readings(h, ref, cv, cmin, th, check, lob) ==
    LET r == h[ref] IN
    IF BelowThreshold(cmin, th)
    THEN {Result(None, "threshold", h, <<>>, 0)}
    ELSE LET min_index == find_cusum_minimum_index(cv) IN
    IF TooEarly(min_index)
    THEN {Result(None, "too_early", h, <<>>, 0)}
    ELSE LET target_reading == TargetReading(r, min_index)
             avg_first == np_mean(EarlyReadings(r, min_index))
             y_values == Slice(r, 0, min_index + 1)
             slope == linregress_slope(y_values)
             lob_gradient == IF lob THEN slope ELSE <<>>
             calls == IF lob THEN <<Len(y_values)>> ELSE <<>>
    IN
    IF check /\ AvgCheckFails(target_reading, avg_first)
    THEN {Result(Tuple4(0, min_index, FALSE, <<>>), "sanity", h, <<>>, 0)}
    ELSE IF lob /\ LobCheckFails(slope)
    THEN {Result(Tuple4(0, min_index, FALSE, lob_gradient), "lob", h, calls, 0)}
    ELSE LET flattened == list_copy(h, ref) IN
         {Result(Tuple4(flattened.ref, min_index, TRUE, lob_gradient), "flattened",
                 FlattenLoop(flattened.heap, flattened.ref, FlattenUpto(min_index),
                             target_reading, noise),
                 calls, FlattenUpto(min_index)) :
             noise \in [1..FlattenUpto(min_index) -> random_uniform(NoiseScaleSq(r))]}

html_create_flattened_readings ==
    /\ pc = "call"
    /\ pc' = "returned_html"
    /\ \E res \in create_flattened_readings(heap, original_readings, cusum_values, cusum_min,
                                             threshold, sanity_check, sanity_lob) :
          /\ ret' = res.ret
          /\ exit' = res.exit
          /\ heap' = res.heap
          /\ linregress_calls' = res.linregress_calls
          /\ random_state' = random_state + res.draws
    /\ UNCHANGED argVars
    /\ UNCHANGED detVars
    /\ UNCHANGED normVars
    /\ UNCHANGED dbVars

\* ------- create_flattened_database_fast.py: main, the body of the record loop
Continue(failed) == [kind |-> "continue", sanity_failed_count |-> failed]

\* the row appended to batch_updates (without the None padding and the id)
Update(fl, results) == [kind |-> "update", flattened |-> fl, new_results_value |-> results]

\* one pass of "for record in records:" from "if len(readings) < 10" on, for
\* the compacted readings at h[ref] and the compacted trace cv
record_loop_body(h, ref, cv, check, lob) ==
    LET r == h[ref] IN
    IF Len(r) < MinReadings
    THEN {Result(Continue(0), "too_short", h, <<>>, 0)}
    ELSE LET min_index == ListIndex(cv, ListMin(cv)) IN
    IF TooEarly(min_index)
    THEN {Result(Continue(0), "too_early", h, <<>>, 0)}
    ELSE LET target_reading == TargetReading(r, min_index)
             avg_first == np_mean(EarlyReadings(r, min_index))
             y_values == Slice(r, 0, min_index + 1)
    IN
    IF check /\ AvgCheckFails(target_reading, avg_first)
    THEN {Result(Continue(1), "sanity", h, <<>>, 0)}
    ELSE IF lob /\ LobCheckFails(linregress_slope(y_values))
    THEN {Result(Continue(1), "lob", h, <<Len(y_values)>>, 0)}
    ELSE LET flattened_readings == list_copy(h, ref)
             pre_flatten_reading == At(r, IF min_index - 1 > 0 THEN min_index - 1 ELSE 0)
         IN
         {Result(Update(flattened_readings.ref, pre_flatten_reading + results_noise),
                 "flattened",
                 FlattenLoop(flattened_readings.heap, flattened_readings.ref,
                             FlattenUpto(min_index), target_reading, noise),
                 IF lob THEN <<Len(y_values)>> ELSE <<>>,
                 FlattenUpto(min_index) + 1) :
             noise \in [1..FlattenUpto(min_index) -> random_uniform(NoiseScaleSq(r))],
             results_noise \in random_uniform(NoiseScaleSq(r))}

\* a record the query returned only if its CUSUM minimum is at or below the
\* threshold ("cusum_min_correct <= {cusum_threshold}"), then the loop body
batch_flatten_record ==
    /\ pc = "record"
    /\ pc' = "returned_batch"
    /\ IF BelowThreshold(cusum_min, threshold)
       THEN ret' = Continue(0) /\ exit' = "threshold" /\ heap' = heap /\ linregress_calls' = <<>>
            /\ random_state' = random_state
       ELSE \E res \in record_loop_body(heap, original_readings, cusum_values,
                                        sanity_check, sanity_lob) :
               /\ ret' = res.ret
               /\ exit' = res.exit
               /\ heap' = res.heap
               /\ linregress_calls' = res.linregress_calls
               /\ random_state' = random_state + res.draws
    /\ UNCHANGED argVars
    /\ UNCHANGED detVars
    /\ UNCHANGED normVars
    /\ UNCHANGED dbVars

\* ------------------------------------------------- the decision and corrector
\* s followed by its last element up to length n
Plateau(s, n) == [j \in 1..n |-> IF j <= Len(s) THEN s[j] ELSE s[Len(s)]]

\* a call of create_flattened_readings with any readings and trace of one length
CallInputs ==
    /\ pc = "call"
    /\ \E n \in 2..MaxLen :
          /\ readings \in [1..n -> ReadingVals]
          /\ cusum_values \in {c \in [1..n -> CusumVals] : c[1] = 0}

\* s stretched to length n: every element held for n / Len(s) positions
Stretch(s, n) == [j \in 1..n |-> s[((j - 1) * Len(s)) \div n + 1]]

\* a record of the readings table: 9 or 10 cycles, the readings in at most
\* MaxLevels levels, the trace level after its first MaxLen values
RecordInputs ==
    /\ pc = "record"
    /\ \E n \in (MinReadings - 1)..MinReadings :
          /\ readings \in {Stretch(s, n) : s \in UNION {[1..m -> ReadingVals] : m \in 1..MaxLevels}}
          /\ cusum_values \in {Plateau(c, n) :
                                 c \in {c \in UNION {[1..m -> CusumVals] : m \in 1..MaxLen} : c[1] = 0}}

Init ==
    /\ module = "none"
    /\ y_vals = <<>>
    /\ k = 0
    /\ cusum = <<>>
    /\ cusum_idx = -1
    /\ (CallInputs \/ RecordInputs)
    /\ heap = [a \in 1..2 |-> IF a = 1 THEN readings ELSE <<>>]
    /\ original_readings = 1
    /\ cusum_min = ListMin(cusum_values)
    /\ threshold \in Thresholds
    /\ sanity_check \in BOOLEAN
    /\ sanity_lob \in BOOLEAN
    /\ ret = [kind |-> "pending"]
    /\ exit = "none"
    /\ linregress_calls = <<>>
    /\ y_inv = <<>>
    /\ y_smooth = <<>>
    /\ random_state = 0
    /\ NoDatabase

Next ==
    \/ vis_create_flattened_readings
    \/ html_create_flattened_readings
    \/ batch_flatten_record

Spec == Init /\ [][Next]_vars

\* ---- generate_flattened_cusum_html.py: generate_svg_graph_with_flattening
\* (the decision the graph shows; the drawing itself is left out)
MaxGraphLen == 4

\* the status indicator of the graph header; passed is "None" when the
\* average comparison was not evaluated on a curve above the threshold
Status(sanity_failed, inspection_mode, would_flatten, flattening_result, below_threshold, passed, lob) ==
    IF sanity_failed
    THEN (IF lob THEN "LOB SANITY FAILED" ELSE "SANITY CHECK FAILED")
    ELSE IF inspection_mode /\ would_flatten THEN "WOULD FLATTEN"
    ELSE IF flattening_result THEN "FLATTENED"
    ELSE IF below_threshold /\ passed # "None"
    THEN (IF passed = "True" THEN "BELOW THRESHOLD (would pass sanity)"
                              ELSE "BELOW THRESHOLD (would fail sanity)")
    ELSE "NO CHANGE"

\* what the graph shows: the status, the gradient of the header (<<>> for
\* none) and the flattened curve drawn in green (0 for none)
Svg(status, g, fl, mode) ==
    [kind |-> "svg", status |-> status, lob_gradient |-> g, flattened |-> fl,
     inspection_mode |-> mode]

svg_graph_with_flattening(h, ref, cv, cmin, th, check, inspection_mode, lob) ==
    LET r == h[ref]
        min_index == find_cusum_minimum_index(cv)
        \* "if sanity_lob: ... if min_index > 1:" the gradient for display
        display == lob /\ min_index > 1
        y_values == Slice(r, 0, min_index + 1)
        display_gradient == IF display THEN linregress_slope(y_values) ELSE <<>>
        display_calls == IF display THEN <<Len(y_values)>> ELSE <<>>
        below_threshold == cmin > th
    IN
    IF inspection_mode
    THEN {Result(Svg(Status(FALSE, TRUE, cmin <= th, FALSE, below_threshold, "None", lob),
                     display_gradient, 0, TRUE),
                 "inspection", h, display_calls, 0)}
    ELSE IF check /\ below_threshold
    THEN LET target_reading == At(r, min_index)
             sanity_passed_check ==
                 IF min_index = 0 THEN FALSE
                 ELSE IF min_index = 1 THEN target_reading < At(r, 0)
                 ELSE ~GeqRat(target_reading, np_mean(EarlyReadings(r, min_index)))
         IN {Result(Svg(Status(FALSE, FALSE, FALSE, FALSE, below_threshold,
                               IF sanity_passed_check THEN "True" ELSE "False", lob),
                        display_gradient, 0, FALSE),
                    "below_threshold", h, display_calls, 0)}
    ELSE {LET flattening_result == res.ret # None
              lob_gradient == IF display_gradient = <<>> /\ flattening_result
                              THEN res.ret.lob_gradient ELSE display_gradient
              sanity_failed == flattening_result /\ res.ret.flattened = 0
                                   /\ ~res.ret.sanity_check_passed
              flattened == flattening_result /\ res.ret.flattened # 0
          IN Result(Svg(Status(sanity_failed, FALSE, FALSE, flattened, below_threshold,
                               "None", lob),
                        lob_gradient, IF flattened THEN res.ret.flattened ELSE 0, FALSE),
                    res.exit, res.heap, display_calls \o res.linregress_calls, res.draws) :
          res \in create_flattened_readings(h, ref, cv, cmin, th, check, lob)}

generate_svg_graph_with_flattening ==
    /\ pc = "call"
    /\ pc' = "returned_svg"
    /\ \E inspection_mode \in BOOLEAN :
       \E res \in svg_graph_with_flattening(heap, original_readings, cusum_values, cusum_min,
                                             threshold, sanity_check, inspection_mode,
                                             sanity_lob) :
          /\ ret' = res.ret
          /\ exit' = res.exit
          /\ heap' = res.heap
          /\ linregress_calls' = res.linregress_calls
          /\ random_state' = random_state + res.draws
    /\ UNCHANGED argVars
    /\ UNCHANGED detVars
    /\ UNCHANGED normVars
    /\ UNCHANGED dbVars

\* a call with readings and trace of one length up to m
CallInputsUpTo(m) ==
    /\ pc = "call"
    /\ \E n \in 2..m :
          /\ readings \in [1..n -> ReadingVals]
          /\ cusum_values \in {c \in [1..n -> CusumVals] : c[1] = 0}

\* a record of the readings table: 9 or 10 cycles, the readings in at most
\* two levels, the trace level after its first m values
RecordInputsUpTo(m) ==
    /\ pc = "record"
    /\ \E n \in (MinReadings - 1)..MinReadings :
          /\ readings \in {Stretch(s, n) : s \in UNION {[1..l -> ReadingVals] : l \in 1..2}}
          /\ cusum_values \in {Plateau(c, n) :
                                 c \in {c \in UNION {[1..l -> CusumVals] : l \in 1..m} : c[1] = 0}}

InitGraph ==
    /\ module = "none"
    /\ y_vals = <<>>
    /\ k = 0
    /\ cusum = <<>>
    /\ cusum_idx = -1
    /\ (CallInputsUpTo(MaxGraphLen) \/ RecordInputsUpTo(MaxGraphLen))
    /\ heap = [a \in 1..2 |-> IF a = 1 THEN readings ELSE <<>>]
    /\ original_readings = 1
    /\ cusum_min = ListMin(cusum_values)
    /\ threshold \in Thresholds
    /\ sanity_check \in BOOLEAN
    /\ sanity_lob \in BOOLEAN
    /\ ret = [kind |-> "pending"]
    /\ exit = "none"
    /\ linregress_calls = <<>>
    /\ y_inv = <<>>
    /\ y_smooth = <<>>
    /\ random_state = 0
    /\ NoDatabase

NextGraph ==
    \/ vis_create_flattened_readings
    \/ html_create_flattened_readings
    \/ batch_flatten_record
    \/ generate_svg_graph_with_flattening

SpecGraph == InitGraph /\ [][NextGraph]_vars

\* ---- generate_flattened_cusum_html.py: generate_html_file, the filter and
\* the counters of the record loop
OnlyFailed == {"None", "threshold", "sanity", "sanity-lob"}

\* a record of the report: 9 or 10 cycles, the readings and the trace level
\* after their first values
ReportInputs(m) ==
    /\ pc = "report"
    /\ \E n \in (MinReadings - 1)..MinReadings :
          /\ readings \in {Plateau(s, n) : s \in [1..(m - 1) -> ReadingVals]}
          /\ cusum_values \in {Plateau(c, n) : c \in {c \in [1..m -> CusumVals] : c[1] = 0}}

\* what one pass of the loop leaves: the status of the graph, whether the
\* graph is kept for the page, and what the pass added to the three counters
Report(only_failed, status, should_include, sanity_failed, lob_failed, flattened) ==
    [kind |-> "report", only_failed |-> only_failed, status |-> status,
     should_include |-> should_include, sanity_failed_count |-> sanity_failed,
     lob_failed_count |-> lob_failed, flattened_count |-> flattened]

\* one pass of "for i, record_tuple in enumerate(records)" from the trace on
generate_html_file_filter ==
    /\ pc = "report"
    /\ pc' = "reported"
    /\ \E only_failed \in OnlyFailed :
          IF Len(heap[original_readings]) < MinReadings
          THEN /\ ret' = Report(only_failed, "none", FALSE, 0, 0, 0)
               /\ exit' = "too_short"
               /\ UNCHANGED <<heap, linregress_calls, random_state>>
          ELSE IF only_failed = "threshold"
          THEN \E res \in svg_graph_with_flattening(heap, original_readings, cusum_values,
                                                    cusum_min, threshold, FALSE, FALSE, FALSE) :
                  LET failed_threshold == cusum_min > threshold
                  IN /\ ret' = Report(only_failed, res.ret.status, failed_threshold, 0, 0, 0)
                     /\ exit' = res.exit
                     /\ heap' = res.heap
                     /\ linregress_calls' = res.linregress_calls
                     /\ random_state' = random_state + res.draws
          ELSE \E res \in svg_graph_with_flattening(heap, original_readings, cusum_values,
                                                    cusum_min, threshold, sanity_check, FALSE,
                                                    sanity_lob) :
                  LET is_sanity_failed == res.ret.status \in {"SANITY CHECK FAILED",
                                                              "LOB SANITY FAILED"}
                      is_flattened == res.ret.status = "FLATTENED" /\ ~is_sanity_failed
                      should_include == IF only_failed \in {"sanity", "sanity-lob"}
                                        THEN is_sanity_failed ELSE TRUE
                  IN /\ ret' = Report(only_failed, res.ret.status, should_include,
                                      IF is_sanity_failed /\ ~sanity_lob THEN 1 ELSE 0,
                                      IF is_sanity_failed /\ sanity_lob THEN 1 ELSE 0,
                                      IF is_flattened THEN 1 ELSE 0)
                     /\ exit' = res.exit
                     /\ heap' = res.heap
                     /\ linregress_calls' = res.linregress_calls
                     /\ random_state' = random_state + res.draws
    /\ UNCHANGED argVars
    /\ UNCHANGED detVars
    /\ UNCHANGED normVars
    /\ UNCHANGED dbVars

InitReport ==
    /\ module = "none"
    /\ y_vals = <<>>
    /\ k = 0
    /\ cusum = <<>>
    /\ cusum_idx = -1
    /\ ReportInputs(MaxGraphLen)
    /\ heap = [a \in 1..2 |-> IF a = 1 THEN readings ELSE <<>>]
    /\ original_readings = 1
    /\ cusum_min = ListMin(cusum_values)
    /\ threshold \in Thresholds
    /\ sanity_check \in BOOLEAN
    /\ sanity_lob \in BOOLEAN
    /\ ret = [kind |-> "pending"]
    /\ exit = "none"
    /\ linregress_calls = <<>>
    /\ y_inv = <<>>
    /\ y_smooth = <<>>
    /\ random_state = 0
    /\ NoDatabase

NextReport ==
    \/ generate_html_file_filter

SpecReport == InitReport /\ [][NextReport]_vars

\* ------------------------------------------------------- the normalizer
\* longest reading sequence handed to the normalizer, and its largest reading
MaxNormLen == 6
MaxNormVal == 2

margin == 50
plot_height == 400 - 2 * margin
window_size == 5

ListMax(s) == CHOOSE m \in {s[j] : j \in 1..Len(s)} : \A j \in 1..Len(s) : m >= s[j]

\* no scaling by the range at all
reading_range_unit(r) == 1

\* the range without the substitution for a flat curve
reading_range_unguarded(r) == ListMax(r) - ListMin(r)

\* "max_reading - min_reading if max_reading != min_reading else 1"
reading_range(r) ==
    IF ListMax(r) # ListMin(r) THEN ListMax(r) - ListMin(r) ELSE 1

\* Every y value of one call (svg_y, y_inv, y_smooth, the trace and k) is an
\* exact rational carried as its numerator over the common denominator
\* Den(readings): reading_range, times 60 so that the mean of 1 to 5 values
\* stays an integer.
Den(r) == 60 * reading_range(r)

\* the scaling measuring from the maximum instead of the minimum
svg_y_from_max(r, i) ==
    (margin + plot_height) * Den(r) - plot_height * (ListMax(r) - At(r, i)) * 60

\* "svg_y = margin + plot_height - (plot_height * (reading - min_reading) / reading_range)"
svg_y(r, i) ==
    (margin + plot_height) * Den(r) - plot_height * (At(r, i) - ListMin(r)) * 60

svg_y_vals(r) == [j \in 1..Len(r) |-> svg_y(r, j - 1)]

\* the coordinates passed on without the inversion
invert_none(y) == y

\* "y_inv = np.max(svg_y_vals) - svg_y_vals"
Invert(y) == [j \in 1..Len(y) |-> ListMax(y) - y[j]]

Max2(a, b) == IF a >= b THEN a ELSE b

\* the truncated centered window: the mean of y[start:end]
WindowMean(y, i) ==
    LET half_window == window_size \div 2
        start == Max2(0, i - half_window)
        end == Min2(Len(y), i + half_window + 1)
    IN Sum(Slice(y, start, end)) \div (end - start)

\* utils/algorithms.py and its copies: an input shorter than the window is
\* returned as it is
smooth_curve(y) ==
    IF Len(y) < window_size THEN y
    ELSE [j \in 1..Len(y) |-> WindowMean(y, j - 1)]

\* pd.Series(y).rolling(window=5, min_periods=1, center=True).mean()
rolling_mean(y) == [j \in 1..Len(y) |-> WindowMean(y, j - 1)]

NormModules == Modules \cup {"apply_corrected_cusum_all"}

NormInputs == UNION {[1..n -> 0..MaxNormVal] : n \in 0..MaxNormLen}

InitNorm ==
    /\ pc = "normalize"
    /\ module \in NormModules
    /\ readings \in NormInputs
    /\ k \in -MaxK..MaxK
    /\ y_vals = <<>>
    /\ cusum = <<>>
    /\ cusum_idx = -1
    /\ heap = [a \in 1..2 |-> <<>>]
    /\ original_readings = 0
    /\ cusum_values = <<>>
    /\ cusum_min = 0
    /\ threshold = 0
    /\ sanity_check = FALSE
    /\ sanity_lob = FALSE
    /\ ret = [kind |-> "pending"]
    /\ exit = "none"
    /\ linregress_calls = <<>>
    /\ y_inv = <<>>
    /\ y_smooth = <<>>
    /\ random_state = 0
    /\ NoDatabase

\* the trace and its minimum, as numerators over den
Trace(c, cmin, den) == [kind |-> "trace", cusum |-> c, cusum_min |-> cmin, den |-> den]

\* utils/algorithms.py (and the copy in generate_flattened_cusum_html.py):
\* min(readings) of an empty list raises ValueError, a division by a
\* reading_range of 0 raises ZeroDivisionError
apply_corrected_cusum_algorithm ==
    /\ pc = "normalize"
    /\ module \in Modules
    /\ IF readings = <<>>
       THEN /\ pc' = "ValueError"
            /\ UNCHANGED <<y_inv, y_smooth, cusum, ret>>
       ELSE IF reading_range(readings) = 0
       THEN /\ pc' = "ZeroDivisionError"
            /\ UNCHANGED <<y_inv, y_smooth, cusum, ret>>
       ELSE /\ pc' = "returned_trace"
            /\ y_inv' = Invert(svg_y_vals(readings))
            /\ y_smooth' = smooth_curve(y_inv')
            /\ cusum' = compute_negative_cusum(y_smooth', k * Den(readings))
            /\ ret' = Trace(cusum', ListMin(cusum'), Den(readings))
    /\ UNCHANGED <<module, y_vals, k, cusum_idx, heap, readings, original_readings,
                   cusum_values, cusum_min, threshold, sanity_check, sanity_lob, exit,
                   linregress_calls, random_state>>
    /\ UNCHANGED dbVars

\* apply_corrected_cusum_all.py: the same scaling, smoothed by pandas; the
\* trace is returned and main takes its minimum, cusum.min()
process_readings_with_corrected_algorithm ==
    /\ pc = "normalize"
    /\ module = "apply_corrected_cusum_all"
    /\ IF readings = <<>>
       THEN /\ pc' = "ValueError"
            /\ UNCHANGED <<y_inv, y_smooth, cusum, ret>>
       ELSE IF reading_range(readings) = 0
       THEN /\ pc' = "ZeroDivisionError"
            /\ UNCHANGED <<y_inv, y_smooth, cusum, ret>>
       ELSE /\ pc' = "returned_trace"
            /\ y_inv' = Invert(svg_y_vals(readings))
            /\ y_smooth' = rolling_mean(y_inv')
            /\ cusum' = compute_negative_cusum(y_smooth', k * Den(readings))
            /\ ret' = Trace(cusum', ListMin(cusum'), Den(readings))
    /\ UNCHANGED <<module, y_vals, k, cusum_idx, heap, readings, original_readings,
                   cusum_values, cusum_min, threshold, sanity_check, sanity_lob, exit,
                   linregress_calls, random_state>>
    /\ UNCHANGED dbVars

NextNorm ==
    \/ apply_corrected_cusum_algorithm
    \/ process_readings_with_corrected_algorithm

SpecNorm == InitNorm /\ [][NextNorm]_vars

\* ------------------------- the database: tables readings and flatten
\* "if len(batch_updates) >= 1000": the size of a batch, scaled down
BatchSize == 2
\* the columns readings0..readings43 and cusum0..cusum43
NumColumns == 44

\* a NULL cell; a reading cell holding v is <<v>>, a CUSUM cell holding the
\* exact value num / den is <<num, den>>
NULL == <<>>

\* the ids of the rows, the thresholds and the curves (levels held for
\* equal durations over 9 or 10 measured cycles) of the runs examined:
\* level, falling, rising with a late dip, falling in two steps
Ids == {1, 2}
DbThresholds == {-100, 0}
DbShapes == {<<1>>, <<2, 0>>, <<0, 2, 1>>, <<2, 1, 0>>}

\* a cell holding bytes instead of a number (a value another program stored
\* as a BLOB; the report generators convert such cells with bytes_to_float)
BLOB == <<0, 0, 0>>

\* "[r for r in row if r is not None]"
Compact(cells) == SelectSeq(cells, LAMBDA c : c # NULL)

\* the numbers held by cells without NULL (the numerators, for CUSUM cells)
Values(cells) == [j \in 1..Len(cells) |-> cells[j][1]]

\* "lst + [None] * (44 - len(lst))"
Pad(cells) == cells \o [j \in 1..(NumColumns - Len(cells)) |-> NULL]

\* "lst[:n]"
Take(s, n) == SubSeq(s, 1, Min2(n, Len(s)))

\* create_database_from_csv.py: a row as imported, a blank cell as NULL, and
\* in_use as the migration adds it; the CUSUM columns are still NULL and the
\* flag is at its default ("cusum_negative_slope_correct INTEGER DEFAULT 0")
ImportedRow(in_use, results, cells) ==
    [in_use |-> in_use, Results |-> results, readings |-> Pad(cells),
     cusum |-> Pad(<<>>), cusum_min_correct |-> NULL, cusum_negative_slope_correct |-> 0]

\* the cells of curve c with a blank cell before position gap (0: no blank)
CsvCells(c, gap) ==
    LET cells == [j \in 1..Len(c) |-> <<c[j]>>] IN
    IF gap = 0 THEN cells
    ELSE SubSeq(cells, 1, gap) \o <<NULL>> \o SubSeq(cells, gap + 1, Len(cells))

ImportedRows ==
    {ImportedRow(in_use, results, CsvCells(Stretch(shape, n), gap)) :
        in_use \in {0, 1}, results \in {NULL, <<1>>}, shape \in DbShapes,
        n \in (MinReadings - 1)..MinReadings, gap \in {0, 3}}

\* apply_corrected_cusum_all.py process_readings_with_corrected_algorithm:
\* the trace of r as numerators over Den(r)
corrected_cusum(r, kk) ==
    compute_negative_cusum(rolling_mean(Invert(svg_y_vals(r))), kk * Den(r))

\* "parser.add_argument('--cusum-limit', type=float, default=-10"
cusum_limit == -10

\* "negative_slope = 1 if cusum_min < cusum_threshold else 0", for the minimum
\* num / den
negative_slope(num, den, th) == IF num < th * den THEN 1 ELSE 0

\* apply_corrected_cusum_all.py main, one pass of "for record_id in in_use_ids"
write_cusum(row, kk, th) ==
    LET r == Values(Compact(row.readings)) IN
    IF Len(r) < MinReadings THEN row
    ELSE IF \E j \in 1..Len(row.readings) : row.readings[j] = BLOB
    THEN \* min() of numbers and bytes: "except Exception ... continue"
         row
    ELSE LET c == corrected_cusum(r, kk) IN
         [row EXCEPT !.cusum = Pad([j \in 1..Len(c) |-> <<c[j], Den(r)>>]),
                     !.cusum_min_correct = <<ListMin(c), Den(r)>>,
                     !.cusum_negative_slope_correct = negative_slope(ListMin(c), Den(r), th)]

\* --ids names any rows; without it, "SELECT id ... WHERE in_use = 1"
IdSelections(table) ==
    {{id \in DOMAIN table : table[id].in_use = 1}} \cup (SUBSET (DOMAIN table) \ {{}})

apply_corrected_cusum_all ==
    /\ pc = "imported"
    /\ pc' = "cusum_written"
    /\ \E in_use_ids \in IdSelections(source_table) :
          source_table' = [id \in DOMAIN source_table |->
                              IF id \in in_use_ids
                              THEN write_cusum(source_table[id], k, cusum_threshold)
                                                   ELSE source_table[id]]
    /\ UNCHANGED <<dest_table, records, batch_updates, flattened_ids, cycle_of,
                   cusum_threshold, executed, runs>>
    /\ UNCHANGED <<example_ids, ids_to_add>>
    /\ UNCHANGED detVars
    /\ UNCHANGED decVars
    /\ UNCHANGED normVars
    /\ UNCHANGED random_state

\* ------------------------ create_flattened_database_fast.py: main
\* the WHERE clause without its threshold condition
where_clause_no_threshold(row, th, id, id_list) ==
    /\ row.in_use = 1
    /\ row.cusum_min_correct # NULL
    /\ id \in id_list

\* "in_use = 1 AND cusum_min_correct IS NOT NULL AND cusum_min_correct <=
\* {cusum_threshold}", and "id IN (...)" under --ids or --example-dataset
where_clause(row, th, id, id_list) ==
    /\ row.in_use = 1
    /\ row.cusum_min_correct # NULL
    /\ row.cusum_min_correct[1] <= th * row.cusum_min_correct[2]
    /\ id \in id_list

\* the orders ORDER BY can put the ids of a set in
Orders(ids) ==
    {o \in [1..Cardinality(ids) -> ids] : \A i, j \in DOMAIN o : i # j => o[i] # o[j]}

\* the cycle behind each position of a compacted run of n measured readings
Cycles(n) == [j \in 1..n |-> j - 1]

\* the columns of the non-NULL cells, counted from 0
ColumnsOf(cells) ==
    LET idx == SelectSeq([j \in 1..Len(cells) |-> j], LAMBDA j : cells[j] # NULL)
    IN [j \in 1..Len(idx) |-> idx[j] - 1]

\* the runs of create_flattened_database_fast.py followed
MaxRuns == 2

\* the destination table kept when it already exists
create_table_if_not_exists(source, dest) == IF dest = <<>> THEN source ELSE dest

\* "DROP TABLE IF EXISTS {dest_table}" and "CREATE TABLE {dest_table} AS
\* SELECT * FROM {source_table}", for two different tables
create_table_as_select(source, dest) == source

\* DROP TABLE / CREATE TABLE ... AS SELECT *, then the query and fetchall();
\* --limit cuts the fetched records
create_flattened_database_start ==
    /\ pc = "cusum_written"
    /\ runs < MaxRuns
    /\ pc' = "flattening"
    /\ dest_table' = create_table_as_select(source_table, dest_table)
    /\ \E id_list \in {Ids} \cup (SUBSET Ids \ {{}}) :
       \E order \in Orders({id \in DOMAIN dest_table' :
                               where_clause(dest_table'[id], threshold, id, id_list)}) :
       \E limit \in {Len(order), 1} :
          records' = Take(order, limit)
    /\ batch_updates' = <<>>
    /\ flattened_ids' = {}
    /\ executed' = <<>>
    /\ runs' = runs + 1
    /\ UNCHANGED <<example_ids, ids_to_add>>
    /\ UNCHANGED <<source_table, cycle_of, cusum_threshold>>
    /\ UNCHANGED detVars
    /\ UNCHANGED decVars
    /\ UNCHANGED normVars
    /\ UNCHANGED random_state

\* one row of batch_updates
BatchUpdate(results, cells, id) ==
    [new_results_value |-> results, padded_readings |-> cells, record_id |-> id]

\* the "WHERE id = ?" parameters of the rows of a batch, in order
RecordIds(updates) == [j \in 1..Len(updates) |-> updates[j].record_id]

\* process_batch: "UPDATE ... SET Results = ?, readings0 = ?, ... WHERE id = ?"
\* for every row of the batch
RECURSIVE process_batch(_, _)
process_batch(table, updates) ==
    IF updates = <<>> THEN table
    ELSE LET u == Head(updates) IN
         process_batch([id \in DOMAIN table |->
                           IF id = u.record_id
                           THEN [table[id] EXCEPT !.Results = <<u.new_results_value>>,
                                                  !.readings = u.padded_readings]
                           ELSE table[id]],
                       Tail(updates))

\* the loop left at the first record that fails
except_break(rest) == <<>>

\* "except Exception as e: print(...); continue": on to the records after
\* the failed one
except_continue(rest) == rest

\* a batch flushed only when it has grown beyond the batch size
batch_full_above(updates) == Len(updates) > BatchSize

\* "if len(batch_updates) >= 1000:"
batch_full(updates) == Len(updates) >= BatchSize

\* one pass of "for record in records:"; a record was fetched before any
\* update, and no other record has its id
flatten_next_record ==
    /\ pc = "flattening"
    /\ records # <<>>
    /\ pc' = "flattening"
    /\ LET record_id == Head(records)
           record == dest_table[record_id]
           r == Values(Compact(record.readings))
           trace == Compact(record.cusum)
           cv == Take(Values(trace), Len(r))
       IN
       /\ readings' = r
       /\ cusum_values' = cv
       /\ cycle_of' = [readings |-> Cycles(Len(r)),
                       cusum |-> Take(ColumnsOf(record.cusum), Len(r))]
       /\ IF /\ Len(r) >= MinReadings
             /\ \/ cv = <<>>
                \/ /\ ~TooEarly(ListIndex(cv, ListMin(cv)))
                   /\ record.readings[1] = BLOB
          THEN \* min() of an empty list, or np.mean, stats.linregress or np.std of
               \* a list that starts with bytes: "except Exception ... continue"
               /\ exit' = "exception"
               /\ records' = except_continue(Tail(records))
               /\ UNCHANGED <<dest_table, batch_updates, flattened_ids, executed,
                              linregress_calls, random_state>>
          ELSE \E res \in record_loop_body([a \in 1..2 |-> IF a = 1 THEN r ELSE <<>>], 1, cv,
                                           sanity_check, sanity_lob) :
                  /\ exit' = res.exit
                  /\ records' = Tail(records)
                  /\ linregress_calls' = res.linregress_calls
                  /\ random_state' = random_state + res.draws
                  /\ IF res.ret.kind = "update"
                     THEN LET flattened_readings == res.heap[res.ret.flattened]
                              padded_readings ==
                                  Pad([j \in 1..Len(flattened_readings) |->
                                          <<flattened_readings[j]>>])
                              batch == Append(batch_updates,
                                              BatchUpdate(res.ret.new_results_value,
                                                          padded_readings, record_id))
                          IN /\ flattened_ids' = flattened_ids \cup {record_id}
                             /\ IF batch_full(batch)
                                THEN /\ dest_table' = process_batch(dest_table, batch)
                                     /\ executed' = executed \o RecordIds(batch)
                                     /\ batch_updates' = <<>>
                                ELSE /\ dest_table' = dest_table
                                     /\ executed' = executed
                                     /\ batch_updates' = batch
                     ELSE UNCHANGED <<dest_table, batch_updates, flattened_ids, executed>>
    /\ UNCHANGED <<example_ids, ids_to_add>>
    /\ UNCHANGED <<source_table, cusum_threshold, runs, heap, original_readings, cusum_min,
                   threshold, sanity_check,
                   sanity_lob, ret>>
    /\ UNCHANGED detVars
    /\ UNCHANGED normVars

\* "if batch_updates: process_batch(...)" and conn.commit()
create_flattened_database_finish ==
    /\ pc = "flattening"
    /\ records = <<>>
    /\ pc' = "flattened_db"
    /\ dest_table' = process_batch(dest_table, batch_updates)
    /\ executed' = executed \o RecordIds(batch_updates)
    /\ batch_updates' = <<>>
    /\ UNCHANGED <<source_table, records, flattened_ids, cycle_of, cusum_threshold, runs>>
    /\ UNCHANGED <<example_ids, ids_to_add>>
    /\ UNCHANGED detVars
    /\ UNCHANGED decVars
    /\ UNCHANGED normVars
    /\ UNCHANGED random_state

\* ---------------------------------- the readers of the two report generators
\* utils/database.py and generate_flattened_cusum_html.py get_readings_for_id
get_readings_for_id(table, target_id) == Values(Compact(table[target_id].readings))

\* "for val in cusum_row[:len(readings)]: if val is None: break"
RECURSIVE UntilNone(_)
UntilNone(cells) ==
    IF cells = <<>> \/ Head(cells) = NULL THEN <<>>
    ELSE <<Head(cells)>> \o UntilNone(Tail(cells))

\* generate_flattened_cusum_html.py apply_corrected_cusum_algorithm: the trace
\* of r as numerators over Den(r)
html_corrected_cusum(r, kk) ==
    compute_negative_cusum(smooth_curve(Invert(svg_y_vals(r))), kk * Den(r))

\* the rows the report generators select: "in_use = 1 AND cusum_min_correct
\* IS NOT NULL"
ReportRecords(table) ==
    {id \in DOMAIN table : table[id].in_use = 1 /\ table[id].cusum_min_correct # NULL}

\* generate_flattened_cusum_html.py generate_html_file, one pass of the record
\* loop up to the trace handed to the graph: the stored trace of table
\* readings for k = 0, a recomputed one otherwise
generate_html_file ==
    /\ pc = "cusum_written"
    /\ \E record_id \in ReportRecords(source_table) :
       \E k_param \in 0..MaxK :
          LET r == get_readings_for_id(source_table, record_id)
              cusum_row == SubSeq(source_table[record_id].cusum, 1, Len(r))
          IN
          IF Len(r) < MinReadings
          THEN /\ pc' = "skipped"
               /\ exit' = "too_short"
               /\ UNCHANGED <<readings, cusum_values, cycle_of>>
          ELSE /\ pc' = "extracted_html"
               /\ exit' = (IF k_param = 0 THEN "stored_trace" ELSE "computed_trace")
               /\ readings' = r
               /\ cusum_values' = IF k_param = 0 THEN Values(UntilNone(cusum_row))
                                                 ELSE html_corrected_cusum(r, k_param)
               /\ cycle_of' = [readings |-> Cycles(Len(r)),
                               cusum |-> IF k_param = 0 THEN Cycles(Len(UntilNone(cusum_row)))
                                                        ELSE Cycles(Len(r))]
    /\ UNCHANGED <<source_table, dest_table, records, batch_updates, flattened_ids,
                   cusum_threshold, executed, runs>>
    /\ UNCHANGED <<example_ids, ids_to_add>>
    /\ UNCHANGED <<heap, original_readings, cusum_min, threshold, sanity_check, sanity_lob,
                   ret, linregress_calls>>
    /\ UNCHANGED detVars
    /\ UNCHANGED normVars
    /\ UNCHANGED random_state

\* generate_database_flattened_html_fixed.py, called on table flatten: Results
\* and the readings compacted into one sequence, the first len - 1 CUSUM
\* columns compacted behind a leading 0.0
get_readings_and_cusum_from_db ==
    /\ pc = "flattened_db"
    /\ \E record_id \in ReportRecords(dest_table) :
          LET row == dest_table[record_id]
              all_readings == Values(Compact(<<row.Results>> \o row.readings))
              cusum_length == Len(all_readings) - 1
              cusum_row == SubSeq(row.cusum, 1, cusum_length)
          IN
          IF Len(all_readings) < MinReadings
          THEN /\ pc' = "returned_none"
               /\ UNCHANGED <<readings, cusum_values, cycle_of>>
          ELSE /\ pc' = "extracted_db"
               /\ readings' = all_readings
               /\ cusum_values' = Take(<<0>> \o Values(Compact(cusum_row)), Len(all_readings))
               /\ cycle_of' =
                     [readings |-> (IF row.Results = NULL THEN <<>> ELSE <<-1>>)
                                      \o Cycles(Len(Compact(row.readings))),
                      cusum |-> Take(<<-1>> \o ColumnsOf(cusum_row), Len(all_readings))]
    /\ UNCHANGED <<source_table, dest_table, records, batch_updates, flattened_ids,
                   cusum_threshold, executed, runs>>
    /\ UNCHANGED <<example_ids, ids_to_add>>
    /\ UNCHANGED <<heap, original_readings, cusum_min, threshold, sanity_check, sanity_lob,
                   ret, exit, linregress_calls>>
    /\ UNCHANGED detVars
    /\ UNCHANGED normVars
    /\ UNCHANGED random_state

\* the readings table after the import, and the arguments of the jobs: --k
\* of apply_corrected_cusum_all.py at its default, --threshold and the sanity
\* flags of create_flattened_database_fast.py
InitDb ==
    /\ pc = "imported"
    /\ source_table \in [Ids -> ImportedRows]
    /\ dest_table = <<>>
    /\ records = <<>>
    /\ batch_updates = <<>>
    /\ flattened_ids = {}
    /\ cycle_of = [readings |-> <<>>, cusum |-> <<>>]
    /\ cusum_threshold = cusum_limit
    /\ runs = 0
    /\ example_ids = <<>>
    /\ ids_to_add = <<>>
    /\ executed = <<>>
    /\ module = "none"
    /\ y_vals = <<>>
    /\ k = 0
    /\ cusum = <<>>
    /\ cusum_idx = -1
    /\ heap = [a \in 1..2 |-> <<>>]
    /\ readings = <<>>
    /\ original_readings = 0
    /\ cusum_values = <<>>
    /\ cusum_min = 0
    /\ threshold \in DbThresholds
    /\ sanity_check \in BOOLEAN
    /\ sanity_lob \in BOOLEAN
    /\ ret = [kind |-> "pending"]
    /\ exit = "none"
    /\ linregress_calls = <<>>
    /\ y_inv = <<>>
    /\ y_smooth = <<>>
    /\ random_state = 0

NextDb ==
    \/ apply_corrected_cusum_all
    \/ create_flattened_database_start
    \/ flatten_next_record
    \/ create_flattened_database_finish
    \/ generate_html_file
    \/ get_readings_and_cusum_from_db

SpecDb == InitDb /\ [][NextDb]_vars

\* ------------------------------------------ the jobs run one after another
\* conn.close() and the end of the process: the tables stay, the variables of
\* main and the state of the random generator are gone
create_flattened_database_exit ==
    /\ pc = "flattened_db"
    /\ pc' = "cusum_written"
    /\ readings' = <<>>
    /\ cusum_values' = <<>>
    /\ cycle_of' = [readings |-> <<>>, cusum |-> <<>>]
    /\ exit' = "none"
    /\ linregress_calls' = <<>>
    /\ random_state' = 0
    /\ flattened_ids' = {}
    /\ executed' = <<>>
    /\ UNCHANGED <<source_table, dest_table, records, batch_updates, cusum_threshold,
                   runs>>
    /\ UNCHANGED <<example_ids, ids_to_add>>
    /\ UNCHANGED <<heap, original_readings, cusum_min, threshold, sanity_check, sanity_lob, ret>>
    /\ UNCHANGED detVars
    /\ UNCHANGED normVars

\* a curve falling by one level a cycle
Ramp == [j \in 1..MinReadings |-> MinReadings - j]

\* the thresholds of apply_corrected_cusum_all.py examined: the default and
\* the CUSUM minimum of the curve with the late dip
ApplyThresholds == {-90, cusum_limit}

\* one row in the readings table, and the arguments of the jobs: --k and the
\* threshold of apply_corrected_cusum_all.py, --threshold and the sanity
\* flags of create_flattened_database_fast.py
InitPipeline ==
    /\ pc = "imported"
    /\ source_table \in [{1} -> ImportedRows \cup {ImportedRow(1, NULL, CsvCells(Ramp, 0))}]
    /\ dest_table = <<>>
    /\ records = <<>>
    /\ batch_updates = <<>>
    /\ flattened_ids = {}
    /\ cycle_of = [readings |-> <<>>, cusum |-> <<>>]
    /\ cusum_threshold \in ApplyThresholds
    /\ runs = 0
    /\ example_ids = <<>>
    /\ ids_to_add = <<>>
    /\ executed = <<>>
    /\ module = "none"
    /\ y_vals = <<>>
    /\ k \in 0..MaxK
    /\ cusum = <<>>
    /\ cusum_idx = -1
    /\ heap = [a \in 1..2 |-> <<>>]
    /\ readings = <<>>
    /\ original_readings = 0
    /\ cusum_values = <<>>
    /\ cusum_min = 0
    /\ threshold \in DbThresholds
    /\ sanity_check \in BOOLEAN
    /\ sanity_lob \in BOOLEAN
    /\ ret = [kind |-> "pending"]
    /\ exit = "none"
    /\ linregress_calls = <<>>
    /\ y_inv = <<>>
    /\ y_smooth = <<>>
    /\ random_state = 0

NextPipeline ==
    \/ apply_corrected_cusum_all
    \/ create_flattened_database_start
    \/ flatten_next_record
    \/ create_flattened_database_finish
    \/ create_flattened_database_exit
    \/ generate_html_file

SpecPipeline == InitPipeline /\ [][NextPipeline]_vars

\* ------------------------------------ records the jobs cannot work through
\* the first reading cell holding bytes
WithBlob(row) == [row EXCEPT !.readings[1] = BLOB]

\* the last of ten readings missing
WithoutLastReading(row) == [row EXCEPT !.readings[MinReadings] = NULL]

\* the CUSUM columns emptied, the stored minimum kept
WithoutTrace(row) == [row EXCEPT !.cusum = Pad(<<>>)]

\* rows of a table the jobs are pointed at: two falling curves as imported
\* and as an earlier run of apply_corrected_cusum_all.py left them, each also
\* with one of the defects above
TableRows ==
    LET imported == {ImportedRow(1, NULL, CsvCells(c, 0)) :
                        c \in {Stretch(<<2, 1, 0>>, MinReadings), Ramp}}
        written == {write_cusum(row, 0, cusum_limit) : row \in imported}
    IN imported \cup written
         \cup {WithBlob(row) : row \in imported \cup written}
         \cup {WithoutLastReading(row) : row \in imported \cup written}
         \cup {WithoutTrace(row) : row \in written}

InitIsolation ==
    /\ pc = "imported"
    /\ source_table \in [Ids -> TableRows]
    /\ dest_table = <<>>
    /\ records = <<>>
    /\ batch_updates = <<>>
    /\ flattened_ids = {}
    /\ cycle_of = [readings |-> <<>>, cusum |-> <<>>]
    /\ cusum_threshold = cusum_limit
    /\ runs = 0
    /\ example_ids = <<>>
    /\ ids_to_add = <<>>
    /\ executed = <<>>
    /\ module = "none"
    /\ y_vals = <<>>
    /\ k = 0
    /\ cusum = <<>>
    /\ cusum_idx = -1
    /\ heap = [a \in 1..2 |-> <<>>]
    /\ readings = <<>>
    /\ original_readings = 0
    /\ cusum_values = <<>>
    /\ cusum_min = 0
    /\ threshold \in DbThresholds
    /\ sanity_check \in BOOLEAN
    /\ sanity_lob \in BOOLEAN
    /\ ret = [kind |-> "pending"]
    /\ exit = "none"
    /\ linregress_calls = <<>>
    /\ y_inv = <<>>
    /\ y_smooth = <<>>
    /\ random_state = 0

NextIsolation ==
    \/ apply_corrected_cusum_all
    \/ create_flattened_database_start
    \/ flatten_next_record
    \/ create_flattened_database_finish

SpecIsolation == InitIsolation /\ [][NextIsolation]_vars

\* ---------------------------------- manage_example_ids.py: add_example_ids
\* the longest list of ids passed to add_example_ids
MaxIdsToAdd == 2

\* the ids, and the (mix, target) pairs stored with them ("None" for NULL)
ExampleIdVals == {1, 2}
MixTargets == {<<"None", "None">>, <<"ENT", "Rubella">>}

\* parse_id_spec: every item a tuple (id, mix, target)
Items == {<<id, mt[1], mt[2]>> : id \in ExampleIdVals, mt \in MixTargets}

\* get_current_example_ids: the dict {id: (mix, target)} of the table
get_current_example_ids(table) == table

\* "INSERT INTO example_ids (id, mix, target) VALUES (?, ?, ?)" for an id the
\* table does not hold
Insert(table, item) ==
    [id \in DOMAIN table \cup {item[1]} |->
        IF id = item[1] THEN <<item[2], item[3]>> ELSE table[id]]

\* what the call leaves: how it ended, the two lists, the table as the
\* statements executed so far have made it, and the dict read at the start
AddResult(kind, added, already_exists, table, current_ids) ==
    [kind |-> kind, added |-> added, already_exists |-> already_exists, table |-> table,
     current_ids |-> current_ids]

\* "for item in ids_to_add": current_ids is the dict read before the loop;
\* an INSERT of an id the table already holds raises sqlite3.IntegrityError
\* (id INTEGER PRIMARY KEY)
RECURSIVE add_loop(_, _, _, _, _)
add_loop(items, current_ids, table, added, already_exists) ==
    IF items = <<>>
    THEN AddResult("tuple", added, already_exists, table, current_ids)
    ELSE LET item == Head(items)
             id_val == item[1]
         IN IF id_val \in DOMAIN current_ids
            THEN add_loop(Tail(items), current_ids, table, added,
                          Append(already_exists, item))
            ELSE IF id_val \in DOMAIN table
            THEN AddResult("IntegrityError", added, already_exists, table, current_ids)
            ELSE add_loop(Tail(items), current_ids, Insert(table, item),
                          Append(added, item), already_exists)

\* add_example_ids as main calls it: conn.commit() after the loop; an
\* exception leaves main through "finally: conn.close()", which rolls the
\* uncommitted inserts back
add_example_ids ==
    /\ pc = "add"
    /\ LET res == add_loop(ids_to_add, get_current_example_ids(example_ids), example_ids,
                           <<>>, <<>>)
       IN /\ ret' = res
          /\ pc' = (IF res.kind = "tuple" THEN "added" ELSE "raised")
          /\ exit' = res.kind
          /\ example_ids' = (IF res.kind = "tuple" THEN res.table ELSE example_ids)
    /\ UNCHANGED <<source_table, dest_table, records, batch_updates, flattened_ids, cycle_of,
                   cusum_threshold, executed, runs, ids_to_add>>
    /\ UNCHANGED <<heap, readings, original_readings, cusum_values, cusum_min, threshold,
                   sanity_check, sanity_lob, linregress_calls>>
    /\ UNCHANGED detVars
    /\ UNCHANGED normVars
    /\ UNCHANGED random_state

InitExample ==
    /\ pc = "add"
    /\ ids_to_add \in UNION {[1..n -> Items] : n \in 0..MaxIdsToAdd}
    /\ example_ids \in UNION {[S -> MixTargets] : S \in SUBSET ExampleIdVals}
    /\ source_table = <<>>
    /\ dest_table = <<>>
    /\ records = <<>>
    /\ batch_updates = <<>>
    /\ flattened_ids = {}
    /\ cycle_of = [readings |-> <<>>, cusum |-> <<>>]
    /\ cusum_threshold = 0
    /\ executed = <<>>
    /\ runs = 0
    /\ module = "none"
    /\ y_vals = <<>>
    /\ k = 0
    /\ cusum = <<>>
    /\ cusum_idx = -1
    /\ heap = [a \in 1..2 |-> <<>>]
    /\ readings = <<>>
    /\ original_readings = 0
    /\ cusum_values = <<>>
    /\ cusum_min = 0
    /\ threshold = 0
    /\ sanity_check = FALSE
    /\ sanity_lob = FALSE
    /\ ret = [kind |-> "pending"]
    /\ exit = "none"
    /\ linregress_calls = <<>>
    /\ y_inv = <<>>
    /\ y_smooth = <<>>
    /\ random_state = 0

NextExample ==
    \/ add_example_ids

SpecExample == InitExample /\ [][NextExample]_vars

\* ------------------------------------- decision and corrector: properties
\* create_flattened_readings has returned
FunctionReturned == pc \in {"returned_vis", "returned_html"}

\* create_flattened_readings has returned, or the record loop has finished
\* with the record
Returned == pc \in {"returned_vis", "returned_html", "returned_batch"}

\* the result carries a corrected sequence
Produced ==
    \/ ret.kind = "list"
    \/ ret.kind = "tuple" /\ ret.flattened # 0
    \/ ret.kind = "update"

\* the result reports a rejection by a sanity check
ReportsRejection ==
    \/ ret.kind = "tuple" /\ ret.flattened = 0
    \/ ret.kind = "continue" /\ ret.sanity_failed_count > 0

Corrected == heap[ret.flattened]

\* change_point_index: the leftmost position of the minimum of the trace
ChangePoint ==
    CHOOSE c \in 0..(Len(cusum_values) - 1) :
        /\ \A j \in 0..(Len(cusum_values) - 1) : At(cusum_values, c) <= At(cusum_values, j)
        /\ \A j \in 0..(c - 1) : At(cusum_values, j) > At(cusum_values, c)

\* target < baseline, baseline the mean of the first 2 readings when the
\* change point is below 5 and of the first 5 readings otherwise
AvgPasses ==
    LET m == IF ChangePoint < 5 THEN 2 ELSE 5
    IN m * At(readings, ChangePoint) < Sum([j \in 1..m |-> readings[j]])

\* the least-squares slope through (0, r[0]) .. (cp, r[cp]) is negative:
\* the sum of (x - mean x) * y, scaled by the number of points, is negative
LobPasses ==
    LET m == ChangePoint + 1
        sx == Sum([j \in 1..m |-> j - 1])
    IN Sum([j \in 1..m |-> (m * (j - 1) - sx) * readings[j]]) < 0

\* C1: a corrected sequence is produced if and only if min_value <=
\* threshold, the change point is above 1, and every enabled sanity check
\* passes, for every combination of the two flags.
C1_AcceptedIff ==
    FunctionReturned =>
        (Produced <=> /\ cusum_min <= threshold
                      /\ ChangePoint > 1
                      /\ (~sanity_check \/ AvgPasses)
                      /\ (~sanity_lob \/ LobPasses))

\* accepted at equality min_value = threshold with both checks enabled
C1_Witness ==
    /\ FunctionReturned
    /\ Produced
    /\ cusum_min = threshold
    /\ sanity_check
    /\ sanity_lob

\* C2: when min_value > threshold or the change point is at most 1,
\* nothing is corrected and nothing reports or counts a rejection by a
\* sanity check (the functions return None, the record loop moves on with
\* its failure counter unchanged), whatever flags are set and whatever
\* the checks would say.
C2_NotNeeded ==
    (Returned /\ (cusum_min > threshold \/ ChangePoint <= 1)) =>
        /\ ~Produced
        /\ ~ReportsRejection
        /\ FunctionReturned => ret = None
        /\ exit \in {"threshold", "too_short", "too_early"}
        /\ heap[2] = <<>>

\* a change point at 1 on a curve that meets the threshold and would fail
\* both enabled checks
C2_Witness ==
    /\ pc = "returned_html"
    /\ cusum_min <= threshold
    /\ ChangePoint = 1
    /\ sanity_check
    /\ sanity_lob
    /\ At(readings, 1) > At(readings, 0)
    /\ ret = None

Outcome ==
    CASE exit \in {"threshold", "too_early"} -> "not needed"
      [] exit \in {"sanity", "lob"} -> "rejected"
      [] exit = "flattened" -> "accepted"
      [] OTHER -> "none"

\* what a caller can read off the returned value
DecisionOf(v) ==
    IF v.kind = "None" THEN "not needed"
    ELSE IF v.kind = "tuple" /\ v.flattened = 0 THEN "rejected"
    ELSE "accepted"

\* C3: the returned value tells the three outcomes apart, and carries the
\* change point for a rejected or an accepted decision.
C3_TriStateFromReturn ==
    FunctionReturned =>
        /\ DecisionOf(ret) = Outcome
        /\ Outcome \in {"rejected", "accepted"} =>
              (ret.kind = "tuple" /\ ret.min_index = ChangePoint)

\* C4: the corrected sequence equals the readings at every position from
\* the change point on.
C4_TailUnchanged ==
    (Returned /\ Produced) =>
        \A i \in ChangePoint..(Len(readings) - 1) : At(Corrected, i) = At(readings, i)

\* a correction with jitter before the change point and readings after it
C4_Witness ==
    /\ Returned
    /\ Produced
    /\ ChangePoint < Len(readings) - 1
    /\ \E i \in 0..(ChangePoint - 1) : At(Corrected, i) # At(readings, ChangePoint)

Abs(x) == IF x < 0 THEN 0 - x ELSE x

\* n^2 * (sum of squared deviations from the mean), n = Len(s)
SqDevN(s) ==
    LET n == Len(s)
        total == Sum(s)
    IN Sum([j \in 1..n |-> (n * s[j] - total) * (n * s[j] - total)])

\* max(s) - min(s)
Range(s) == (0 - ListMin([j \in 1..Len(s) |-> 0 - s[j]])) - ListMin(s)

\* C5: every corrected value before the change point lies within
\* noise_scale = 0.001 * stddev(readings) of readings[change_point_index]:
\* with d the difference, d^2 * 10^6 <= variance of the readings.  (The
\* standard deviation never exceeds the range, so the first conjunct follows
\* from the second; it keeps the squares small for a d far outside.)
C5_JitterWithinNoiseScale ==
    (Returned /\ Produced) =>
        LET n == Len(readings)
            dev == SqDevN(readings)
            range == Range(readings)
            cp == ChangePoint
        IN \A i \in 0..(cp - 1) :
              LET d == At(Corrected, i) - At(readings, cp)
              IN /\ Abs(d) * 1000 <= range
                 /\ d * d * 1000000 * n * n * n <= dev

\* jitter at both ends of the interval in one corrected sequence
C5_Witness ==
    /\ Returned
    /\ Produced
    /\ \E i, j \in 0..(ChangePoint - 1) :
          /\ At(Corrected, i) > At(readings, ChangePoint)
          /\ At(Corrected, j) < At(readings, ChangePoint)

\* C6: the caller's reading list is what it was before the call, and a
\* corrected sequence is a different list of the same length.
C6_InputNotMutated ==
    Returned =>
        /\ heap[original_readings] = readings
        /\ Produced => /\ ret.flattened # original_readings
                       /\ Len(Corrected) = Len(readings)

\* a correction that differs from the readings it was made from
C6_Witness ==
    /\ Returned
    /\ Produced
    /\ Corrected # readings
    /\ heap[original_readings] = readings

\* C10: with the average-comparison check enabled on a curve that meets
\* the threshold with a change point above 1, the call is rejected by that
\* check exactly when readings[cp] is not strictly below the baseline, and
\* a rejected call produces no corrected sequence.
C10_AverageCheck ==
    (/\ Returned
     /\ sanity_check
     /\ cusum_min <= threshold
     /\ ChangePoint > 1
     /\ pc = "returned_batch" => Len(readings) >= MinReadings) =>
        /\ exit = "sanity" <=> ~AvgPasses
        /\ exit = "sanity" => ~Produced
        /\ (exit = "sanity" /\ pc # "returned_vis") => ReportsRejection

\* a change point at 5 or later whose reading is below the mean of the
\* first two readings but equal to the mean of the first five: rejected
C10_Witness ==
    /\ FunctionReturned
    /\ exit = "sanity"
    /\ ChangePoint >= 5
    /\ 2 * At(readings, ChangePoint) < At(readings, 0) + At(readings, 1)
    /\ 5 * At(readings, ChangePoint) = Sum(SubSeq(readings, 1, 5))

\* readings <<b, b, t, t>> with t > b, change point 2: rejected
C10_WitnessExample ==
    /\ FunctionReturned
    /\ readings = <<1000, 1000, 2000, 2000>>
    /\ ChangePoint = 2
    /\ exit = "sanity"

\* C11: with the line-of-best-fit check enabled on a curve that meets the
\* threshold with a change point above 1 (and passes the average comparison
\* when that is enabled too), the call is rejected by the line-of-best-fit
\* check exactly when the least-squares slope through (0, readings[0]) ..
\* (cp, readings[cp]) is not strictly negative, and a rejected call produces
\* no corrected sequence.
C11_LobCheck ==
    (/\ Returned
     /\ sanity_lob
     /\ cusum_min <= threshold
     /\ ChangePoint > 1
     /\ ~sanity_check \/ AvgPasses
     /\ pc = "returned_batch" => Len(readings) >= MinReadings) =>
        /\ exit = "lob" <=> ~LobPasses
        /\ exit = "lob" => ~Produced
        /\ (exit = "lob" /\ pc # "returned_vis") => ReportsRejection

\* a slope of exactly zero through three points that are not level: rejected
C11_Witness ==
    /\ Returned
    /\ exit = "lob"
    /\ ChangePoint = 2
    /\ At(readings, 0) = At(readings, 2)
    /\ At(readings, 1) < At(readings, 0)

\* readings <<b, b, t>> with t > b, change point 2: rejected
C11_WitnessExample ==
    /\ FunctionReturned
    /\ readings = <<1000, 1000, 2000>>
    /\ ChangePoint = 2
    /\ exit = "lob"

\* C12: a regression is run only after the degeneracy guard has let the
\* change point through: every stats.linregress call of an operation is
\* handed the change_point_index + 1 >= 3 points (0, readings[0]) ..
\* (cp, readings[cp]), and none is made when the change point is 0 or 1,
\* for every input and every combination of the flags.
C12_GuardBeforeRegression ==
    \A i \in 1..Len(linregress_calls) :
        /\ linregress_calls[i] >= 3
        /\ linregress_calls[i] = ChangePoint + 1

\* the graph generator ran the regression twice, on exactly three points
C12_Witness ==
    /\ pc = "returned_svg"
    /\ linregress_calls = <<3, 3>>

\* the check is enabled on a curve that meets the threshold with its
\* change point at 1: the operation ends without a regression
C12_WitnessGuarded ==
    /\ pc \in {"returned_html", "returned_batch", "returned_svg"}
    /\ sanity_lob
    /\ cusum_min <= threshold
    /\ ChangePoint = 1
    /\ linregress_calls = <<>>

\* C19: the jitter comes from an injected random source only: no step of
\* an invocation of the corrector reads or advances random state that
\* another invocation shares, so the process-wide generator of module
\* random stays where it was.
C19_NoSharedRandomState == [][random_state' = random_state]_vars

\* ------------------------------------------------ normalizer: properties
\* the normalizer has ended, with a result or an error
NormEnded == pc \in {"returned_trace", "ValueError", "ZeroDivisionError"}

\* a degenerate flat reading sequence: max == min
Flat == readings # <<>> /\ ListMax(readings) = ListMin(readings)

\* the first (leftmost) position of the minimum of the returned trace
TraceChangePoint ==
    CHOOSE c \in 0..(Len(cusum) - 1) :
        /\ \A j \in 0..(Len(cusum) - 1) : At(cusum, c) <= At(cusum, j)
        /\ \A j \in 0..(c - 1) : At(cusum, j) > At(cusum, c)

\* the call returned a trace that is identically 0, with minimum 0 and
\* change point 0
NoDecline ==
    /\ pc = "returned_trace"
    /\ Len(cusum) = Len(readings)
    /\ \A j \in 1..Len(cusum) : cusum[j] = 0
    /\ ret.cusum_min = 0
    /\ TraceChangePoint = 0

\* C13 as stated: for a flat reading sequence and every slack k >= 0 the
\* engine does not fail and the trace is identically 0, with min_value 0
\* and the change point at 0.
C13_FlatNoDecline ==
    (NormEnded /\ Flat /\ k >= 0) => NoDecline

\* C13 as amended: for a flat reading sequence and slack k = 0 the engine
\* does not fail and the trace is identically 0, with min_value 0 and the
\* change point at 0.
C13_FlatNoDeclineAtZeroSlack ==
    (NormEnded /\ Flat /\ k = 0) => NoDecline

\* a flat sequence long enough to be smoothed, at slack 0
C13_Witness ==
    /\ pc = "returned_trace"
    /\ Flat
    /\ k = 0
    /\ Len(readings) >= window_size
    /\ readings[1] > 0

\* C14: for a reading sequence of fewer than 2 elements the engine ends in
\* an error, and returns no trace, CUSUM minimum or change point.
C14_ShortInputIsError ==
    (NormEnded /\ Len(readings) < 2) =>
        /\ pc \in {"ValueError", "ZeroDivisionError"}
        /\ ret.kind = "pending"

\* C15: for every input of length n >= 2 and every index i the smoothed
\* value at i is the mean of the pre-smoothing values at the positions
\* max(0, i-2) .. min(n, i+3)-1, the denominator being the number of those
\* positions.
C15_TruncatedWindowMean ==
    (pc = "returned_trace" /\ Len(readings) >= 2) =>
        LET n == Len(readings) IN
        /\ Len(y_smooth) = n
        /\ \A i \in 0..(n - 1) :
              LET window == {j \in 0..(n - 1) : j >= i - 2 /\ j <= i + 2}
              IN At(y_smooth, i) * Cardinality(window) =
                     Sum([j \in 1..n |-> IF (j - 1) \in window THEN y_inv[j] ELSE 0])

\* C16 as stated: a higher raw reading yields a higher normalized value in
\* the smoothed output: readings[i] > readings[j] implies
\* y_smooth[i] > y_smooth[j], for all positions i, j.
C16_MonotoneSmoothed ==
    pc = "returned_trace" =>
        \A i, j \in 0..(Len(readings) - 1) :
            At(readings, i) > At(readings, j) => At(y_smooth, i) > At(y_smooth, j)

\* C16 as amended: a higher raw reading yields a higher normalized value
\* before smoothing: readings[i] > readings[j] implies y_inv[i] > y_inv[j],
\* for all positions i, j.
C16_MonotoneBeforeSmoothing ==
    pc = "returned_trace" =>
        /\ Len(y_inv) = Len(readings)
        /\ \A i, j \in 0..(Len(readings) - 1) :
              At(readings, i) > At(readings, j) => At(y_inv, i) > At(y_inv, j)

\* a curve on which smoothing reverses the order of two readings
C16_Witness ==
    /\ pc = "returned_trace"
    /\ \E i, j \in 0..(Len(readings) - 1) :
          /\ At(readings, i) > At(readings, j)
          /\ At(y_inv, i) > At(y_inv, j)
          /\ At(y_smooth, i) < At(y_smooth, j)

\* C17: for every reading sequence of length >= 2 the normalized (smoothed)
\* sequence has the length of the reading sequence and each of its values
\* lies in [0, 300], 300 being the plot height 400 - 2 * 50; so does the
\* sequence before smoothing.
C17_NormalizedInRange ==
    (NormEnded /\ Len(readings) >= 2) =>
        /\ pc = "returned_trace"
        /\ plot_height = 300
        /\ Len(y_smooth) = Len(readings)
        /\ Len(y_inv) = Len(readings)
        /\ \A j \in 1..Len(readings) :
              /\ 0 <= y_smooth[j] /\ y_smooth[j] <= 300 * ret.den
              /\ 0 <= y_inv[j] /\ y_inv[j] <= 300 * ret.den

\* a smoothed curve that reaches both ends of the range
C17_Witness ==
    /\ pc = "returned_trace"
    /\ Len(readings) >= window_size
    /\ \E i, j \in 1..Len(readings) :
          /\ y_smooth[i] = 0
          /\ y_smooth[j] = 300 * ret.den

\* a flat curve: every normalized value is 0
C17_WitnessFlat ==
    /\ pc = "returned_trace"
    /\ Flat
    /\ Len(readings) >= window_size
    /\ \A j \in 1..Len(readings) : y_smooth[j] = 0

\* ------------------------------------------------- detector: properties
\* C7: for every input sequence and every slack k the trace returned by
\* compute_negative_cusum starts with 0 and has no positive element.
C7_TraceNonPositive ==
    pc \in {"trace", "detected", "AttributeError"} =>
        /\ cusum[1] = 0
        /\ \A j \in 1..Len(cusum) : cusum[j] <= 0

\* a trace on which the clamp acted: the running sum would have gone above 0
C7_Witness ==
    /\ pc = "trace"
    /\ ReturnsArray(module)
    /\ \E i \in 1..(Len(y_vals) - 1) :
          /\ At(cusum, i - 1) + (At(y_vals, i) - At(y_vals, i - 1) - k) > 0
          /\ At(cusum, i) = 0
    /\ \E i \in 1..(Len(y_vals) - 1) : At(cusum, i) < 0

\* C8: the change point is the first (leftmost) position of the minimum of
\* the trace: the trace there equals its minimum and is strictly larger
\* at every earlier position.
C8_FirstMinimum ==
    pc = "detected" =>
        /\ cusum_idx \in 0..(Len(cusum) - 1)
        /\ \A j \in 0..(Len(cusum) - 1) : At(cusum, cusum_idx) <= At(cusum, j)
        /\ \A j \in 0..(cusum_idx - 1) : At(cusum, j) > At(cusum, cusum_idx)

\* the trace <<0, 0, -m, -m>> has its change point at 2
C8_Witness ==
    /\ pc = "detected"
    /\ cusum = <<0, 0, -2, -2>>
    /\ cusum_idx = 2

DiffsAtLeastK ==
    \A i \in 1..(Len(y_vals) - 1) : At(y_vals, i) - At(y_vals, i - 1) >= k

C9_WitnessRising ==
    /\ pc = "detected"
    /\ DiffsAtLeastK
    /\ k > 0
    /\ Len(y_vals) >= 3
    /\ cusum_idx = 0

\* ------------------------------------------------- the database: properties
\* the measured readings of a row and its stored trace, in column order
RowReadings(row) == Values(Compact(row.readings))
RowTrace(row) == Values(Compact(row.cusum))

\* the leftmost position (from 0) of the minimum of a non-empty trace c
FirstMinimum(c) ==
    CHOOSE i \in 0..(Len(c) - 1) :
        /\ \A j \in 0..(Len(c) - 1) : At(c, i) <= At(c, j)
        /\ \A j \in 0..(i - 1) : At(c, j) > At(c, i)

\* the decision on a row is "accepted": at least 10 readings, a stored CUSUM
\* minimum at or below the threshold, a change point above 1, and every
\* enabled sanity check passed
RowAccepted(row) ==
    LET r == RowReadings(row)
        c == RowTrace(row)
        cp == FirstMinimum(c)
        m == IF cp < 5 THEN 2 ELSE 5
        sx == Sum([j \in 1..(cp + 1) |-> j - 1])
    IN /\ Len(r) >= 10
       /\ row.cusum_min_correct # NULL
       /\ row.cusum_min_correct[1] <= threshold * row.cusum_min_correct[2]
       /\ c # <<>>
       /\ cp > 1
       /\ sanity_check => m * At(r, cp) < Sum([j \in 1..m |-> r[j]])
       /\ sanity_lob => Sum([j \in 1..(cp + 1) |-> ((cp + 1) * (j - 1) - sx) * r[j]]) < 0

\* a caller has taken the readings and the trace of a record
Extracted == cycle_of.readings # <<>>

\* C18: in every caller (the batch flattener's record loop and the two report
\* generators) the trace and the reading sequence taken for a record have
\* equal length, position i of the trace belongs to the same measured cycle
\* as position i of the readings, and the change point is a valid index of
\* the readings.
C18_TraceAlignedWithReadings ==
    Extracted =>
        /\ Len(cusum_values) = Len(readings)
        /\ cycle_of.cusum = cycle_of.readings
        /\ FirstMinimum(cusum_values) \in 0..(Len(readings) - 1)

\* the same in the batch flattener's record loop and in generate_html_file
C18_AlignedOutsideDatabaseReport ==
    (Extracted /\ pc # "extracted_db") =>
        /\ Len(cusum_values) = Len(readings)
        /\ cycle_of.cusum = cycle_of.readings
        /\ FirstMinimum(cusum_values) \in 0..(Len(readings) - 1)

\* the same for get_readings_and_cusum_from_db on a row whose Results is set
C18_AlignedWithResults ==
    (pc = "extracted_db" /\ cycle_of.readings[1] = -1) =>
        /\ Len(cusum_values) = Len(readings)
        /\ cycle_of.cusum = cycle_of.readings

\* the ids with an update waiting in batch_updates
Pending == {batch_updates[j].record_id : j \in 1..Len(batch_updates)}

\* C20: once the destination table exists, the batch flattener has flattened,
\* queued an update for, or changed the destination row of a record only if
\* that record's decision is accepted; the destination row of every other
\* record, and of every record it has not flattened, is exactly the row
\* copied from the source table.
C20_OnlyAcceptedRowsUpdated ==
    pc \in {"flattening", "flattened_db", "extracted_db", "returned_none"} =>
        \A id \in DOMAIN dest_table :
            /\ ~RowAccepted(source_table[id]) =>
                  /\ id \notin flattened_ids
                  /\ id \notin Pending
                  /\ dest_table[id] = source_table[id]
            /\ id \notin flattened_ids => dest_table[id] = source_table[id]
            /\ dest_table[id].cusum = source_table[id].cusum

\* the job has finished: one record was accepted and its row rewritten, the
\* other met the threshold with a change point above 1 and was rejected by a
\* sanity check, and its row is as copied
C20_Witness ==
    /\ pc = "flattened_db"
    /\ \E id, other \in DOMAIN dest_table :
          /\ id \in flattened_ids
          /\ RowAccepted(source_table[id])
          /\ dest_table[id].readings # source_table[id].readings
          /\ source_table[other].in_use = 1
          /\ source_table[other].cusum_min_correct # NULL
          /\ source_table[other].cusum_min_correct[1]
                <= threshold * source_table[other].cusum_min_correct[2]
          /\ FirstMinimum(RowTrace(source_table[other])) > 1
          /\ ~RowAccepted(source_table[other])
          /\ dest_table[other] = source_table[other]

\* C25: the trace is monotone in the slack: for the trace returned for k and
\* every larger slack k2, the trace for k2 is at or below it at every index,
\* so its minimum is no higher, and a threshold met at k is met at k2.
C25_TraceMonotoneInSlack ==
    pc \in {"trace", "detected", "AttributeError"} =>
        \A k2 \in k..MaxK :
            LET trace_k2 == compute_negative_cusum(y_vals, k2) IN
            /\ Len(trace_k2) = Len(cusum)
            /\ \A j \in 1..Len(cusum) : trace_k2[j] <= cusum[j]
            /\ ListMin(trace_k2) <= ListMin(cusum)
            /\ \A th \in Thresholds : ListMin(cusum) <= th => ListMin(trace_k2) <= th

\* a falling sequence whose trace at the larger slack is strictly lower, and
\* meets a threshold that the trace at the smaller slack misses
C25_Witness ==
    /\ pc = "trace"
    /\ k = 0
    /\ Len(y_vals) >= 3
    /\ LET trace_k2 == compute_negative_cusum(y_vals, MaxK) IN
          /\ \E j \in 1..Len(cusum) : trace_k2[j] < cusum[j]
          /\ \E th \in Thresholds : ListMin(cusum) > th /\ ListMin(trace_k2) <= th

\* the readings a * r + b
Rescaled(r, a, b) == [j \in 1..Len(r) |-> a * r[j] + b]

\* C26: for a reading sequence that is not flat, apply_corrected_cusum_algorithm
\* returns for a * readings + b (a > 0) the same trace, the same minimum and
\* the same change point as for the readings, under every slack k.
C26_AffineInvariant ==
    (pc = "returned_trace" /\ module \in Modules /\ ~Flat) =>
        \A ab \in {<<1, -1>>, <<2, 1>>} :
            LET r2 == Rescaled(readings, ab[1], ab[2])
                trace2 == html_corrected_cusum(r2, k)
            IN /\ Len(trace2) = Len(ret.cusum)
               /\ \A j \in 1..Len(trace2) :
                     trace2[j] * ret.den = ret.cusum[j] * Den(r2)
               /\ ListMin(trace2) * ret.den = ret.cusum_min * Den(r2)
               /\ FirstMinimum(trace2) = FirstMinimum(ret.cusum)

\* a curve with a decline, whose doubled and shifted copy has another range
\* and so another denominator, and the same trace
C26_Witness ==
    /\ pc = "returned_trace"
    /\ module \in Modules
    /\ Len(readings) >= window_size
    /\ ret.cusum_min < 0
    /\ FirstMinimum(ret.cusum) > 1
    /\ Den(Rescaled(readings, 2, 1)) = 2 * ret.den
    /\ html_corrected_cusum(Rescaled(readings, 2, 1), k)[Len(readings)] * ret.den
          = ret.cusum[Len(readings)] * Den(Rescaled(readings, 2, 1))

\* ------------------------------------------- the inspection mode: properties
\* C22: in inspection mode generate_svg_graph_with_flattening reports
\* 'WOULD FLATTEN' if and only if the decision for the same readings, trace,
\* threshold and enabled checks is 'accepted' (the threshold is met, the
\* change point is above 1 and every enabled check passes), and it produces
\* no corrected sequence.
C22_WouldFlattenIffAccepted ==
    (pc = "returned_svg" /\ ret.inspection_mode) =>
        /\ ret.status = "WOULD FLATTEN" <=> /\ cusum_min <= threshold
                                            /\ ChangePoint > 1
                                            /\ (~sanity_check \/ AvgPasses)
                                            /\ (~sanity_lob \/ LobPasses)
        /\ ret.flattened = 0
        /\ heap[2] = <<>>

\* ------------------------------------------- the report filter: properties
\* the check that rejected the record, as the decision finds it: the average
\* comparison is made first, the line of best fit only after it has passed
RejectedBy ==
    IF cusum_min > threshold \/ ChangePoint <= 1 THEN "none"
    ELSE IF sanity_check /\ ~AvgPasses THEN "sanity"
    ELSE IF sanity_lob /\ ~LobPasses THEN "sanity-lob"
    ELSE "none"

ReportedRecord == pc = "reported" /\ exit # "too_short"

\* C23: for any combination of enabled checks, --only-failed sanity keeps
\* exactly the records the average comparison rejected, --only-failed
\* sanity-lob exactly the records the line of best fit rejected, --only-failed
\* threshold exactly the records whose CUSUM minimum is above the threshold,
\* and each rejected record is counted under the check that rejected it.
C23_FilterAndCounters ==
    ReportedRecord =>
        /\ ret.only_failed = "sanity" => (ret.should_include <=> RejectedBy = "sanity")
        /\ ret.only_failed = "sanity-lob" => (ret.should_include <=> RejectedBy = "sanity-lob")
        /\ ret.only_failed = "threshold" => (ret.should_include <=> cusum_min > threshold)
        /\ ret.only_failed # "threshold" =>
              /\ ret.sanity_failed_count = (IF RejectedBy = "sanity" THEN 1 ELSE 0)
              /\ ret.lob_failed_count = (IF RejectedBy = "sanity-lob" THEN 1 ELSE 0)

\* ------------------------------------------------ the pipeline: properties
\* C21: every caller applies the threshold test inclusively (min_value <=
\* threshold, equality included): the flattener selects a record only if its
\* stored minimum is at or below the threshold, and the negative-slope flag
\* apply_corrected_cusum_all.py stores with a row is 1 exactly when the
\* row's CUSUM minimum is at or below the threshold of the run.
C21_InclusiveThresholdEverywhere ==
    pc # "imported" =>
        /\ \A id \in DOMAIN source_table :
              LET row == source_table[id] IN
              row.cusum_min_correct # NULL =>
                  (row.cusum_negative_slope_correct = 1
                      <=> row.cusum_min_correct[1] <= cusum_threshold * row.cusum_min_correct[2])
        /\ \A id \in flattened_ids :
              LET row == source_table[id] IN
              row.cusum_min_correct[1] <= threshold * row.cusum_min_correct[2]

\* a k = 0 report or the batch flattener has read the stored trace of a record
ReadStoredTrace ==
    \/ pc = "flattening" /\ Extracted
    \/ pc = "extracted_html" /\ exit = "stored_trace"

\* C24: whatever --k the batch CUSUM runs were given, the trace a k = 0
\* report or the batch flattener reads from the database for a record is the
\* trace the engine computes with k = 0 from the record's stored readings,
\* and every stored CUSUM minimum is the minimum of that trace.
C24_StoredTraceIsZeroSlackTrace ==
    /\ ReadStoredTrace => cusum_values = corrected_cusum(readings, 0)
    /\ pc \in {"cusum_written", "extracted_html"} =>
          \A id \in DOMAIN source_table :
              LET row == source_table[id]
                  r == RowReadings(row)
              IN row.cusum_min_correct # NULL =>
                    row.cusum_min_correct = <<ListMin(corrected_cusum(r, 0)), Den(r)>>

\* dst is src after exactly one correction: the readings from the change
\* point on, the trace, the minimum and the flags are those of src, every
\* reading before the change point lies within 0.001 of the range of the
\* readings of src around src's reading at the change point, and Results
\* within the same distance of src's reading just before the change point
OnceCorrected(src, dst) ==
    LET r == RowReadings(src)
        d == RowReadings(dst)
        cp == FirstMinimum(RowTrace(src))
    IN /\ RowTrace(src) # <<>>
       /\ cp > 1
       /\ dst.in_use = src.in_use
       /\ dst.cusum = src.cusum
       /\ dst.cusum_min_correct = src.cusum_min_correct
       /\ dst.cusum_negative_slope_correct = src.cusum_negative_slope_correct
       /\ dst.readings = Pad([j \in 1..Len(d) |-> <<d[j]>>])
       /\ Len(d) = Len(r)
       /\ \A j \in cp..(Len(r) - 1) : At(d, j) = At(r, j)
       /\ \A j \in 0..(cp - 1) : Abs(At(d, j) - At(r, cp)) * 1000 <= Range(r)
       /\ dst.Results # NULL
       /\ Abs(dst.Results[1] - At(r, cp - 1)) * 1000 <= Range(r)

\* C27: every run of the flattener rebuilds the destination table from the
\* source table before it corrects anything, so after any number of runs
\* one after the other every destination row is an exact copy of its source
\* row or that source row corrected exactly once, and no run changes a row
\* of the source table.
C27_RebuiltFromSourceEveryRun ==
    [][pc # "imported" =>
          /\ source_table' = source_table
          /\ \A id \in DOMAIN dest_table' :
                \/ dest_table'[id] = source_table[id]
                \/ OnceCorrected(source_table[id], dest_table'[id])]_vars

\* the second run has finished on the falling ramp: the row is corrected, and
\* Results holds the source reading before the change point, which a
\* correction of the already corrected row would not give
C27_Witness ==
    /\ pc = "flattened_db"
    /\ runs = 2
    /\ RowReadings(source_table[1]) = Ramp
    /\ dest_table[1] # source_table[1]
    /\ dest_table[1].Results = <<1>>
    /\ RowReadings(dest_table[1]) = [j \in 1..MinReadings |-> 0]

\* ------------------------------------------------- the batches: properties
\* the ids whose update was executed or is waiting, in the order of appending
Submitted == executed \o RecordIds(batch_updates)

C28_WitnessRemainder ==
    /\ pc = "flattened_db"
    /\ Len(executed) = 1

\* ------------------------------------------- failing records: properties
\* the processing of the row fails, or skips it for its length
ShortRow(row) == Len(Compact(row.readings)) < 10
BlobRow(row) == \E j \in 1..Len(row.readings) : row.readings[j] = BLOB
TracelessRow(row) == Compact(row.cusum) = <<>>

C29_WitnessEnd ==
    /\ pc = "flattened_db"
    /\ Cardinality(flattened_ids) = 1
    /\ \E id \in DOMAIN dest_table :
          /\ id \notin flattened_ids
          /\ dest_table[id].cusum_min_correct # NULL
          /\ ShortRow(dest_table[id]) \/ BlobRow(dest_table[id]) \/ TracelessRow(dest_table[id])

\* ------------------------------------------------- example ids: properties
\* how often item x occurs in the list s
Occurrences(s, x) == Cardinality({j \in 1..Len(s) : s[j] = x})

\* C30: for any list of ids, repeated ids and ids already in the table
\* included, add_example_ids completes and returns (added, already_exists)
\* that together hold every input item exactly once; afterwards the table
\* holds every input id, and the mix and target of every row that was there
\* before the call are unchanged.
C30_AddCompletesAndPartitions ==
    pc # "add" =>
        /\ pc = "added"
        /\ \A x \in Items :
              Occurrences(ret.added \o ret.already_exists, x) = Occurrences(ids_to_add, x)
        /\ \A j \in 1..Len(ids_to_add) : ids_to_add[j][1] \in DOMAIN example_ids
        /\ \A id \in DOMAIN ret.current_ids :
              id \in DOMAIN example_ids /\ example_ids[id] = ret.current_ids[id]

====
